---- MODULE Spec2Model ----
(***************************************************************************)
(* Model of the DocNexus API Platform SDK dispatcher (src/platform.ts):    *)
(* the endpoint registry, resolvePath, call() and createPlatformClient().  *)
(*                                                                         *)
(* Strings are sequences of tokens.  Where the code looks inside a string  *)
(* character by character (the NPI digits) a token is one character;       *)
(* elsewhere a token is a path segment, a slash or a header fragment.      *)
(* Response body texts are TLA+ strings; JSON.parse is given as the table  *)
(* of what it yields on each of them.                                      *)
(***************************************************************************)
EXTENDS Integers, Sequences, FiniteSets, TLC

VARIABLES registry, config, client, names, calls, frame, sent, resp, reads,
          doc, dcall, dsent, dresp

vars ==
  <<registry, config, client, names, calls, frame, sent, resp, reads,
    doc, dcall, dsent, dresp>>

(***************************************************************************)
(* Bounds of the model.                                                    *)
(***************************************************************************)
\* Concurrent invocations of call() in flight at once.
NumCalls == 2
\* NPI inputs carry 0..MaxDigits digit characters.
MaxDigits == 11
\* Base URLs are given with 0..MaxSlashes trailing slashes.
MaxSlashes == 2

CallIds == 1..NumCalls

(***************************************************************************)
(* JavaScript values that occur in payloads.                               *)
(***************************************************************************)
Undef == [t |-> "undef", s |-> <<>>, n |-> 0]
Null == [t |-> "null", s |-> <<>>, n |-> 0]
Str(s) == [t |-> "str", s |-> s, n |-> 0]
Num(n) == [t |-> "num", s |-> <<>>, n |-> n]
True == [t |-> "bool", s |-> <<>>, n |-> 1]
False == [t |-> "bool", s |-> <<>>, n |-> 0]

DigitChars == <<"0", "1", "2", "3", "4", "5", "6", "7", "8", "9">>

IsDigit(c) == \E d \in 1..10 : DigitChars[d] = c

\* Decimal expansion of a non-negative integer, as Number.prototype.toString.
RECURSIVE Decimal(_)
Decimal(n) ==
  IF n < 10 THEN <<DigitChars[n + 1]>>
  ELSE Append(Decimal(n \div 10), DigitChars[(n % 10) + 1])

\* String(value) for the value kinds above.
String(v) ==
  CASE v.t = "str" -> v.s
    [] v.t = "num" -> Decimal(v.n)
    [] v.t = "bool" -> (IF v.n = 1 THEN <<"t", "r", "u", "e">>
                        ELSE <<"f", "a", "l", "s", "e">>)
    [] v.t = "null" -> <<"n", "u", "l", "l">>
    [] OTHER -> <<"u", "n", "d", "e", "f", "i", "n", "e", "d">>

\* str.replace(/\D/g, ""): every non-digit character removed, order kept.
StripNonDigitsFirstOnly(s) ==
  LET k == IF \E j \in 1..Len(s) : ~IsDigit(s[j])
           THEN CHOOSE j \in 1..Len(s) : ~IsDigit(s[j]) /\ \A h \in 1..(j - 1) : IsDigit(s[h])
           ELSE 0
  IN IF k = 0 THEN s ELSE SubSeq(s, 1, k - 1) \o SubSeq(s, k + 1, Len(s))

StripNonDigits(s) == SelectSeq(s, IsDigit)

\* encodeURIComponent on the tokens that need escaping in a path segment.
EncodeToken(c) ==
  CASE c = "/" -> "%2F"
    [] c = " " -> "%20"
    [] c = ":" -> "%3A"
    [] OTHER -> c

EncodeURIComponent(s) == [k \in 1..Len(s) |-> EncodeToken(s[k])]

\* First index of token tok in s, 0 if none.
IndexOf(s, tok) ==
  IF \E k \in 1..Len(s) : s[k] = tok
  THEN CHOOSE k \in 1..Len(s) : s[k] = tok /\ \A j \in 1..(k - 1) : s[j] # tok
  ELSE 0

\* path.replace(":param", str): the first occurrence only.
Replace(s, tok, by) ==
  LET k == IndexOf(s, tok) IN
  IF k = 0 THEN s ELSE SubSeq(s, 1, k - 1) \o by \o SubSeq(s, k + 1, Len(s))

PlaceholderTokens == {":npi", ":id", ":name"}

\* /:[\w]+/.test(path)
HasPlaceholder(s) == \E k \in 1..Len(s) : s[k] \in PlaceholderTokens

\* path.startsWith("http")
StartsWithHttp(s) == Len(s) > 0 /\ s[1] \in {"http:", "https:"}

StartsWith(s, prefix) ==
  Len(s) >= Len(prefix) /\ SubSeq(s, 1, Len(prefix)) = prefix

(***************************************************************************)
(* The endpoint registry.                                                  *)
(***************************************************************************)
NoParams == <<>>

EndpointDef(method, template, params) ==
  [method |-> method, pathTemplate |-> template, pathParams |-> params]

Entry(name, def) == [name |-> name, def |-> def]

V5Search == <<"v5", "/", "search">>
V5Profile == <<"v5", "/", "profile", "/", "us", "/", ":npi">>
V5Health == <<"v5", "/", "health">>
ApiQuery == <<"api", "/", "query">>
ApiGenerateSql == <<"api", "/", "generate-sql">>
ApiGenerateFormPayload == <<"api", "/", "generate-form-payload">>
ApiExport == <<"api", "/", "export">>

ENDPOINT_REGISTRY_ExportAsGet ==
  << Entry(V5Search, EndpointDef("POST", V5Search, NoParams)),
     Entry(V5Profile, EndpointDef("GET", V5Profile, <<"npi">>)),
     Entry(V5Health, EndpointDef("GET", V5Health, NoParams)),
     Entry(ApiQuery, EndpointDef("POST", ApiQuery, NoParams)),
     Entry(ApiGenerateSql, EndpointDef("POST", ApiGenerateSql, NoParams)),
     Entry(ApiGenerateFormPayload, EndpointDef("POST", ApiGenerateFormPayload, NoParams)),
     Entry(ApiExport, EndpointDef("GET", ApiExport, NoParams)) >>

ENDPOINT_REGISTRY ==
  << Entry(V5Search, EndpointDef("POST", V5Search, NoParams)),
     Entry(V5Profile, EndpointDef("GET", V5Profile, <<"npi">>)),
     Entry(V5Health, EndpointDef("GET", V5Health, NoParams)),
     Entry(ApiQuery, EndpointDef("POST", ApiQuery, NoParams)),
     Entry(ApiGenerateSql, EndpointDef("POST", ApiGenerateSql, NoParams)),
     Entry(ApiGenerateFormPayload, EndpointDef("POST", ApiGenerateFormPayload, NoParams)),
     Entry(ApiExport, EndpointDef("POST", ApiExport, NoParams)) >>

\* Object.keys(reg): the own keys, in insertion order.
ObjectKeys(reg) == [k \in 1..Len(reg) |-> reg[k].name]

\* Property names every object inherits from Object.prototype.
ObjectPrototypeKeys ==
  { <<"constructor">>, <<"toString">>, <<"valueOf">>, <<"hasOwnProperty">>,
    <<"__proto__">> }

\* What an inherited property yields when read as an EndpointDef: its
\* method, pathTemplate and pathParams are all undefined.
InheritedDef == [method |-> "undefined", pathTemplate |-> <<>>, pathParams |-> NoParams]

\* reg[name]: an own entry, else a property inherited from Object.prototype,
\* else undefined.  truthy is what `!def` tests; own tells an EndpointDef
\* from an inherited function or object.
Lookup(reg, name) ==
  IF \E k \in 1..Len(reg) : reg[k].name = name
  THEN [truthy |-> TRUE, own |-> TRUE,
        def |-> reg[CHOOSE k \in 1..Len(reg) : reg[k].name = name].def]
  ELSE IF name \in ObjectPrototypeKeys
  THEN [truthy |-> TRUE, own |-> FALSE, def |-> InheritedDef]
  ELSE [truthy |-> FALSE, own |-> FALSE, def |-> InheritedDef]

(***************************************************************************)
(* Payloads, call options, requests, responses and outcomes.               *)
(***************************************************************************)
PayloadKeys == {"npi", "first_name"}

Payload(npi, firstName) ==
  [given |-> TRUE, f |-> [k \in PayloadKeys |-> IF k = "npi" THEN npi ELSE firstName]]

NoPayload == [given |-> FALSE, f |-> [k \in PayloadKeys |-> Undef]]

\* payload[key]
Get(payload, key) == IF key \in DOMAIN payload.f THEN payload.f[key] ELSE Undef

\* JSON.stringify(payload): the text of an object holding the keys whose
\* value is not undefined (null is kept).
JSONstringify(payload) ==
  [k \in {h \in DOMAIN payload.f : payload.f[h].t # "undef"} |-> payload.f[k]]

NoBody == [given |-> FALSE, json |-> [k \in {} |-> Undef]]

Options(baseUrl, apiKey, endpointName, payload) ==
  [baseUrl |-> baseUrl, apiKey |-> apiKey, endpointName |-> endpointName,
   payload |-> payload]

NoUrl == [given |-> FALSE, s |-> <<>>]
Url(s) == [given |-> TRUE, s |-> s]

Request(url, method, headers, body) ==
  [url |-> url, method |-> method, headers |-> headers, body |-> body]

NoRequest == Request(<<>>, "", [h \in {} |-> ""], NoBody)

NoContentType == [given |-> FALSE, v |-> <<>>]
ContentType(v) == [given |-> TRUE, v |-> v]

Response(status, statusText, contentType, body) ==
  [status |-> status, statusText |-> statusText, contentType |-> contentType,
   body |-> body]

NoResponse == Response(0, "", NoContentType, "")

NoOutcome ==
  [t |-> "pending", err |-> "", param |-> "", about |-> <<>>, known |-> <<>>,
   status |-> 0, detail |-> "", via |-> "", src |-> ""]

Throw(err) == [NoOutcome EXCEPT !.t = "throw", !.err = err]

Return(via, src) == [NoOutcome EXCEPT !.t = "return", !.via = via, !.src = src]

UnknownEndpoint(name, known) ==
  [Throw("Unknown endpoint") EXCEPT !.about = name, !.known = known]

MissingPathParameter(param) ==
  [Throw("Missing path parameter") EXCEPT !.param = param]

InvalidNpi == Throw("NPI must be 10 digits")

UnresolvedPlaceholder(template) ==
  [Throw("Unresolved path placeholder") EXCEPT !.about = template]

TypeError == Throw("TypeError")

HttpError(status, detail) ==
  [Throw("DocNexus API") EXCEPT !.status = status, !.detail = detail]

(***************************************************************************)
(* resolvePath                                                             *)
(***************************************************************************)
NpiLength == 10

Resolved(path) == [ok |-> TRUE, defined |-> TRUE, path |-> path, err |-> NoOutcome]

ResolvedUndefined == [ok |-> TRUE, defined |-> FALSE, path |-> <<>>, err |-> NoOutcome]

Rejected(err) == [ok |-> FALSE, defined |-> FALSE, path |-> <<>>, err |-> err]

\* `:${param}`
PlaceholderOf(param) ==
  CASE param = "npi" -> ":npi"
    [] param = "id" -> ":id"
    [] OTHER -> ":name"

\* The body of the for loop, from the k-th path parameter on.
RECURSIVE ResolveParams(_, _, _, _)
ResolveParams(path, pathParams, k, payload) ==
  IF k > Len(pathParams) THEN Resolved(path)
  ELSE
    LET param == pathParams[k]
        value == Get(payload, param)
        str == IF param = "npi" THEN StripNonDigits(String(value))
               ELSE EncodeURIComponent(String(value))
    IN
    IF value.t \in {"undef", "null"} THEN Rejected(MissingPathParameter(param))
    ELSE IF param = "npi" /\ Len(str) # NpiLength THEN Rejected(InvalidNpi)
    ELSE ResolveParams(Replace(path, PlaceholderOf(param), str), pathParams, k + 1, payload)

\* The loop runs only when there are path parameters AND a payload.
RunsParamLoop(pathParams, payload) == Len(pathParams) > 0 /\ payload.given

\* resolvePath(def.pathTemplate, def.pathParams, payload); own is false when
\* def is an inherited property, whose pathTemplate is undefined.
ResolvePath(own, template, pathParams, payload) ==
  IF ~own THEN ResolvedUndefined
  ELSE
    LET r == IF RunsParamLoop(pathParams, payload)
             THEN ResolveParams(template, pathParams, 1, payload)
             ELSE Resolved(template)
    IN
    IF ~r.ok THEN r
    ELSE IF HasPlaceholder(r.path) THEN Rejected(UnresolvedPlaceholder(template))
    ELSE r

(***************************************************************************)
(* call(): the synchronous part, up to the await of the transport.         *)
(***************************************************************************)
\* baseUrl.replace(/\/$/, ""): one trailing slash removed, if there is one.
KeepTrailingSlash(s) == s

StripTrailingSlash(s) ==
  IF Len(s) > 0 /\ s[Len(s)] = "/" THEN SubSeq(s, 1, Len(s) - 1) ELSE s

\* path.startsWith("http") ? path : `${base}/${path}`
JoinUrl(base, path) == IF StartsWithHttp(path) THEN path ELSE base \o <<"/">> \o path

\* def.method === "POST" && payload != null
CarriesBodyWheneverPayload(method, payload) == payload.given

CarriesBody(method, payload) == method = "POST" /\ payload.given

HeadersFor(apiKey, method, payload) ==
  [h \in {"apikey"} \cup (IF CarriesBody(method, payload) THEN {"Content-Type"} ELSE {})
     |-> IF h = "apikey" THEN apiKey ELSE "application/json"]

BodyFor(method, payload) ==
  IF CarriesBody(method, payload)
  THEN [given |-> TRUE, json |-> JSONstringify(payload)]
  ELSE NoBody

Failed(err) == [ok |-> FALSE, err |-> err, path |-> <<>>, req |-> NoRequest]

Ready(path, req) == [ok |-> TRUE, err |-> NoOutcome, path |-> path, req |-> req]

\* Lines 129-146: either an error is thrown before the transport is reached,
\* or the request handed to the transport.
Preflight(reg, o) ==
  IF ~o.baseUrl.given THEN Failed(TypeError)
  ELSE
    LET base == StripTrailingSlash(o.baseUrl.s)
        found == Lookup(reg, o.endpointName)
        def == found.def
        r == ResolvePath(found.own, def.pathTemplate, def.pathParams, o.payload)
    IN
    IF ~found.truthy THEN Failed(UnknownEndpoint(o.endpointName, ObjectKeys(reg)))
    ELSE IF ~r.ok THEN Failed(r.err)
    ELSE IF ~r.defined THEN Failed(TypeError)
    ELSE Ready(r.path,
               Request(JoinUrl(base, r.path), def.method,
                       HeadersFor(o.apiKey, def.method, o.payload),
                       BodyFor(def.method, o.payload)))

(***************************************************************************)
(* call(): after the transport has answered.                               *)
(***************************************************************************)
\* res.ok
Ok(res) == res.status >= 200 /\ res.status <= 299

\* contentType?.includes("application/json")
IsJsonContentType(ct) == ct.given /\ \E k \in 1..Len(ct.v) : ct.v[k] = "application/json"

\* What JSON.parse yields on each body text of the model: whether it parses,
\* whether reading a property of the result throws (null), and the detail
\* and error properties of the result.
Absent == [t |-> "undef", s |-> ""]
JNull == [t |-> "null", s |-> ""]
JStr(s) == [t |-> "str", s |-> s]

Parsed(detail, error) == [ok |-> TRUE, nullish |-> FALSE, detail |-> detail, error |-> error]

JSONparse(text) ==
  CASE text = "{}" -> Parsed(Absent, Absent)
    [] text = "{\"detail\":\"boom\"}" -> Parsed(JStr("boom"), Absent)
    [] text = "{\"error\":\"bad\"}" -> Parsed(Absent, JStr("bad"))
    [] text = "{\"detail\":\"boom\",\"error\":\"bad\"}" -> Parsed(JStr("boom"), JStr("bad"))
    [] text = "{\"detail\":null,\"error\":\"bad\"}" -> Parsed(JNull, JStr("bad"))
    [] text = "{\"detail\":\"\",\"error\":\"bad\"}" -> Parsed(JStr(""), JStr("bad"))
    [] text = "{\"access_token\":\"jwt_a\"}" -> Parsed(Absent, Absent)
    [] text = "{\"access_token\":\"jwt_b\"}" -> Parsed(Absent, Absent)
    [] text = "null" -> [ok |-> TRUE, nullish |-> TRUE, detail |-> Absent, error |-> Absent]
    [] OTHER -> [ok |-> FALSE, nullish |-> FALSE, detail |-> Absent, error |-> Absent]

\* a ?? b
Coalesce(a, b) == IF a.t \in {"undef", "null"} THEN b ELSE a

\* a || b on strings
OrElse(a, b) == IF a = "" THEN b ELSE a

\* Lines 149-155: the detail message of a non-success response.
DetailOfErrorFirst(text, statusText) ==
  LET j == JSONparse(text) IN
  IF ~j.ok \/ j.nullish THEN OrElse(text, statusText)
  ELSE Coalesce(j.error, Coalesce(j.detail, JStr(text))).s

DetailOf(text, statusText) ==
  LET j == JSONparse(text) IN
  IF ~j.ok \/ j.nullish THEN OrElse(text, statusText)
  ELSE Coalesce(j.detail, Coalesce(j.error, JStr(text))).s

\* Lines 147-162: where call() continues once the transport has answered:
\* it awaits res.text() for the error message, or res.json(), or res.text().
ContinuationBySniffing(res) ==
  IF ~Ok(res) THEN "errorText"
  ELSE IF JSONparse(res.body).ok THEN "json"
  ELSE "text"

Continuation(res) ==
  IF ~Ok(res) THEN "errorText"
  ELSE IF IsJsonContentType(res.contentType) THEN "json"
  ELSE "text"

\* The body accessor awaited at each continuation.
BodyAccessor(step) == IF step = "json" THEN "json" ELSE "text"

\* What call() delivers once the awaited accessor has settled with the body
\* text: res is the response object the continuation holds.
Deliver(step, res, text) ==
  CASE step = "errorText" -> HttpError(res.status, DetailOf(text, res.statusText))
    [] step = "json" ->
         (IF JSONparse(text).ok THEN Return("json", text) ELSE Throw("SyntaxError"))
    [] OTHER -> Return("text", text)

(***************************************************************************)
(* getBaseUrlForEndpoint (config.ts).  call() does not use it.             *)
(***************************************************************************)
DOCNEXUS_LINK_BASE_URL ==
  <<"https:", "//", "kong-eff0a29fd0usbkc4r.kongcloud.dev", "/", "profile">>

ADVANCED_SEARCH_BASE_URL ==
  <<"https:", "//", "kong-eff0a29fd0usbkc4r.kongcloud.dev", "/", "advanced">>

GetBaseUrlForEndpoint(endpointName) ==
  IF StartsWith(endpointName, <<"v5", "/">>) THEN StripTrailingSlash(DOCNEXUS_LINK_BASE_URL)
  ELSE IF StartsWith(endpointName, <<"api", "/">>)
  THEN StripTrailingSlash(ADVANCED_SEARCH_BASE_URL)
  ELSE StripTrailingSlash(DOCNEXUS_LINK_BASE_URL)

(***************************************************************************)
(* Inputs.                                                                 *)
(***************************************************************************)
GatewayUrl == <<"https:", "//", "gw.example">>

Slashes(n) == [k \in 1..n |-> "/"]

BaseUrls == {NoUrl} \cup {Url(GatewayUrl \o Slashes(n)) : n \in 0..MaxSlashes}

ApiKeys == {"dnx_a", "dnx_b"}

UnknownNames ==
  { <<"invalid", "/", "path">>, <<"v5", "/", "unknown">>, <<"constructor">>,
    <<"toString">>, <<"__proto__">> }

RegisteredNames ==
  {V5Search, V5Profile, V5Health, ApiQuery, ApiGenerateSql, ApiGenerateFormPayload,
   ApiExport}

EndpointNames == RegisteredNames \cup UnknownNames

\* The k-th digit character written into an NPI input.
DigitAt(k) == DigitChars[(k % 10) + 1]

Digits(n) == [k \in 1..n |-> DigitAt(k)]

\* n digits written plainly, as a formatted phone-like number "(123) 456-7890",
\* or after the letters "abc".
RECURSIVE FormattedFrom(_, _)
FormattedFrom(d, k) ==
  IF k > Len(d) THEN <<>>
  ELSE (IF k = 1 THEN <<"(">> ELSE <<>>) \o <<d[k]>>
       \o (IF k = 3 THEN <<")", " ">> ELSE IF k = 6 THEN <<"-">> ELSE <<>>)
       \o FormattedFrom(d, k + 1)

Formatted(n) == FormattedFrom(Digits(n), 1)

NpiStrings ==
  UNION { {Digits(n), Formatted(n), <<"a", "b", "c">> \o Digits(n)} : n \in 0..MaxDigits }

NpiValues ==
  {Undef, Null, True, Num(1234567890), Num(123)} \cup {Str(s) : s \in NpiStrings}

John == Str(<<"J", "o", "h", "n">>)

ProfilePayloads == {NoPayload} \cup {Payload(v, Undef) : v \in NpiValues}

CommonPayloads ==
  {NoPayload, Payload(Undef, Undef), Payload(Undef, John),
   Payload(Str(Digits(NpiLength)), Null)}

\* The options call() is invoked with.
AllOptions ==
  {Options(b, "dnx_a", V5Profile, p) : b \in BaseUrls, p \in ProfilePayloads}
  \cup {Options(b, k, e, p) : b \in BaseUrls, k \in ApiKeys, e \in EndpointNames,
                              p \in CommonPayloads}

BodyTexts ==
  {"", "oops", "{}", "null", "{\"detail\":\"boom\"}", "{\"error\":\"bad\"}",
   "{\"detail\":\"boom\",\"error\":\"bad\"}", "{\"detail\":null,\"error\":\"bad\"}",
   "{\"detail\":\"\",\"error\":\"bad\"}"}

ContentTypes ==
  {NoContentType, ContentType(<<"application/json">>),
   ContentType(<<"application/json", "; charset=utf-8">>),
   ContentType(<<"text/plain">>), ContentType(<<"text/csv">>)}

\* The reason phrase of a status; HTTP/2 responses carry none ("").
StatusText(status) ==
  CASE status = 200 -> "OK"
    [] status = 204 -> "No Content"
    [] status = 404 -> "Not Found"
    [] OTHER -> "Internal Server Error"

\* The answers of the transport.
Responses ==
  {Response(200, StatusText(200), ct, b) : ct \in ContentTypes, b \in BodyTexts}
  \cup {Response(204, StatusText(204), NoContentType, "")}
  \cup UNION { {Response(st, txt, ContentType(<<"application/json">>), b) :
                   txt \in {"", StatusText(st)}, b \in BodyTexts} : st \in {404, 500} }

\* The configurations createPlatformClient() is given: with a base URL, and
\* with the API key alone.
ClientConfigs ==
  { [baseUrl |-> Url(GatewayUrl), apiKey |-> "dnx_a", fetch |-> "customFetch"],
    [baseUrl |-> NoUrl, apiKey |-> "dnx_b", fetch |-> "undefined"] }

\* The caller's config object before any was built.
NoConfig == [baseUrl |-> NoUrl, apiKey |-> "", fetch |-> "undefined"]

NoClient == [created |-> FALSE, baseUrl |-> NoUrl, apiKey |-> "", fetch |-> "undefined"]

(***************************************************************************)
(* DocnexusClient (index.ts): the typed class.                             *)
(***************************************************************************)
\* An optional string: undefined, or a string (which may be empty).
NoString == [given |-> FALSE, v |-> ""]
Given(v) == [given |-> TRUE, v |-> v]

\* if (x): undefined and "" are falsy.
Truthy(x) == x.given /\ x.v # ""

DEFAULT_VERSION == "v5"

\* new DocnexusClient(config)
DocnexusClient(cfg) ==
  [baseUrl |-> StripTrailingSlash(DOCNEXUS_LINK_BASE_URL),
   apiKey |-> cfg.apiKey,
   version |-> IF cfg.version.given THEN cfg.version.v ELSE DEFAULT_VERSION,
   bearerToken |-> NoString]

\* `Bearer ${token}`
Bearer(token) == "Bearer " \o token

NoHeaders == [h \in {} |-> ""]

\* headers[name] = value
SetHeader(headers, name, value) ==
  [h \in DOMAIN headers \cup {name} |-> IF h = name THEN value ELSE headers[h]]

\* The options argument of request(): { body?, headers? }.
RequestOptions(headers, body) == [headers |-> headers, body |-> body]

NoOptions == RequestOptions(NoHeaders, NoPayload)

\* Lines 82-86: the stored bearer token, else the stored API key.
AuthHeadersApiKeyFirst(d, headers) ==
  IF Truthy(d.apiKey) THEN SetHeader(headers, "apikey", d.apiKey.v)
  ELSE IF Truthy(d.bearerToken) THEN SetHeader(headers, "Authorization", Bearer(d.bearerToken.v))
  ELSE headers

AuthHeaders(d, headers) ==
  IF Truthy(d.bearerToken) THEN SetHeader(headers, "Authorization", Bearer(d.bearerToken.v))
  ELSE IF Truthy(d.apiKey) THEN SetHeader(headers, "apikey", d.apiKey.v)
  ELSE headers

\* Lines 78-94: the request that request(method, path, options) hands to
\* the transport.
RequestOf(d, method, path, options) ==
  LET auth == AuthHeaders(d, options.headers)
      headers == IF options.body.given /\ method # "GET"
                 THEN SetHeader(auth, "Content-Type", "application/json")
                 ELSE auth
  IN Request(d.baseUrl \o path, method, headers,
             IF options.body.given
             THEN [given |-> TRUE, json |-> JSONstringify(options.body)]
             ELSE NoBody)

\* Lines 96-103: the detail message of a non-success response.
DocDetailOf(text, statusText) ==
  LET j == JSONparse(text) IN
  IF ~j.ok \/ j.nullish THEN OrElse(text, statusText)
  ELSE Coalesce(j.detail, JStr(text)).s

\* Lines 95-109: what request() delivers once the awaited body accessor has
\* settled with the body text.
DocDeliver(step, res, text) ==
  CASE step = "errorText" -> HttpError(res.status, DocDetailOf(text, res.statusText))
    [] step = "json" ->
         (IF JSONparse(text).ok THEN Return("json", text) ELSE Throw("SyntaxError"))
    [] OTHER -> Return("text", text)

\* a ?? b on optional values
Default(a, b) == IF a.t \in {"undef", "null"} THEN b ELSE a

SearchKeys ==
  {"first_name", "last_name", "specialty", "country", "other_info", "is_refresh_data"}

\* SearchParams: the keys a caller leaves out are undefined.
SearchParams(firstName, lastName, specialty, isRefreshData) ==
  [k \in SearchKeys |->
     CASE k = "first_name" -> firstName
       [] k = "last_name" -> lastName
       [] k = "specialty" -> specialty
       [] k = "is_refresh_data" -> isRefreshData
       [] OTHER -> Undef]

\* Lines 118-125: the body search() builds.
SearchBody(params) ==
  [given |-> TRUE,
   f |-> [k \in SearchKeys |->
            CASE k \in {"first_name", "last_name"} -> params[k]
              [] k = "is_refresh_data" -> Default(params[k], False)
              [] OTHER -> Default(params[k], Null)]]

\* `/${version}/search`, `/${version}/health`, ...
VersionPath(version, rest) == <<"/", version, "/">> \o rest

\* login(): the request it hands to the transport itself, with no
\* credential header.
LoginRequest(d) ==
  Request(d.baseUrl \o VersionPath(d.version, <<"token">>), "POST",
          SetHeader(NoHeaders, "Content-Type", "application/x-www-form-urlencoded"),
          [given |-> TRUE, json |-> [k \in {"username", "password"} |-> Str(<<k>>)]])

\* data.access_token of each body text of the model.
AccessToken(text) ==
  CASE text = "{\"access_token\":\"jwt_a\"}" -> Given("jwt_a")
    [] text = "{\"access_token\":\"jwt_b\"}" -> Given("jwt_b")
    [] OTHER -> NoString

LoginFailed(status, detail) ==
  [Throw("Login failed") EXCEPT !.status = status, !.detail = detail]

\* Lines 158-171: what login() delivers, and the bearer token the client
\* holds afterwards.
LoginDeliver(d, step, res, text) ==
  LET j == JSONparse(text) IN
  IF step = "errorText"
  THEN [outcome |-> LoginFailed(res.status, DocDetailOf(text, res.statusText)), doc |-> d]
  ELSE IF ~j.ok THEN [outcome |-> Throw("SyntaxError"), doc |-> d]
  ELSE IF j.nullish THEN [outcome |-> TypeError, doc |-> d]
  ELSE [outcome |-> Return("json", text),
        doc |-> [d EXCEPT !.bearerToken = AccessToken(text)]]

\* refresh(): const token = refreshToken ?? this.bearerToken
RefreshToken(d, refreshToken) == IF refreshToken.given THEN refreshToken ELSE d.bearerToken

NoRefreshToken == Throw("No refresh token provided")

\* The configurations DocnexusClient is constructed with.
DocConfigs ==
  {[apiKey |-> k, version |-> v] : k \in {NoString, Given("dnx_a")},
                                    v \in {NoString, Given("v4")}}

DocApiKeys == {"dnx_a", "dnx_b", ""}

BearerTokens == {"jwt_a", "jwt_b", ""}

RefreshTokens == {NoString, Given("jwt_r"), Given("")}

DocNpis == {Str(Digits(NpiLength)), Str(Formatted(NpiLength)), Str(Digits(NpiLength - 1))}

DocSearches ==
  {SearchParams(John, Str(<<"D", "o", "e">>), Undef, Undef),
   SearchParams(John, Str(<<"D", "o", "e">>), Str(<<"Cardiology">>), True)}

\* The answers of the transport to the class.
DocResponses ==
  {Response(200, StatusText(200), ContentType(<<"application/json">>), b) :
     b \in {"{}", "{\"access_token\":\"jwt_a\"}", "{\"access_token\":\"jwt_b\"}", "oops",
            "null"}}
  \cup {Response(200, StatusText(200), ContentType(<<"text/plain">>), "oops")}
  \cup {Response(st, StatusText(st), ContentType(<<"application/json">>), b) :
          st \in {404, 500},
          b \in {"", "oops", "{\"detail\":\"boom\"}", "{\"error\":\"bad\"}"}}

\* No method of the class is running.
DocIdle ==
  [pc |-> "idle", op |-> "", npi |-> Undef, token |-> NoString, outcome |-> NoOutcome]

(***************************************************************************)
(* State.                                                                  *)
(***************************************************************************)
Idle ==
  [pc |-> "idle", via |-> "", opts |-> Options(NoUrl, "", <<>>, NoPayload),
   fetchFn |-> "", outcome |-> NoOutcome]

NoFrame == [path |-> <<>>, req |-> NoRequest, res |-> NoResponse]

Init ==
  /\ registry = ENDPOINT_REGISTRY
  /\ config = NoConfig
  /\ client = NoClient
  /\ names = <<>>
  /\ calls = [i \in CallIds |-> Idle]
  /\ frame = [i \in CallIds |-> NoFrame]
  /\ sent = [i \in CallIds |-> <<>>]
  /\ resp = [i \in CallIds |-> NoResponse]
  /\ reads = [i \in CallIds |-> <<>>]
  /\ doc = DocnexusClient([apiKey |-> NoString, version |-> NoString])
  /\ dcall = DocIdle
  /\ dsent = <<>>
  /\ dresp = NoResponse

\* The bindings of one invocation (path, url, headers, body, res, text) are
\* local to it: invocation i keeps them in its own frame.
FrameOfShared(i) == 1

FrameOf(i) == i

\* fetchFn(url, {method, headers, body}): the transport receives the request.
TransmitTwice(log, req) == Append(Append(log, req), req)

Transmit(log, req) == Append(log, req)

\* The body accessors call() invokes on a response, once the continuation is
\* chosen: res.text() on the error path, else res.json() or res.text().
ReadBodyTextThenJson(log, step) ==
  IF step = "json" THEN log \o <<"text", "json">> ELSE Append(log, "text")

ReadBody(log, step) == Append(log, BodyAccessor(step))

\* fetch: fetchFn = globalThis.fetch
FetchFn(optionFetch) ==
  IF optionFetch = "undefined" THEN "globalThis.fetch" ELSE optionFetch

\* One invocation of call(options), options.fetch being optionFetch, run up
\* to its first await.
Invoke(i, via, o, optionFetch) ==
  LET p == Preflight(registry, o) IN
  /\ calls[i].pc = "idle"
  /\ calls' = [calls EXCEPT ![i] = [pc |-> IF p.ok THEN "awaitFetch" ELSE "done",
                                    via |-> via,
                                    opts |-> o,
                                    fetchFn |-> FetchFn(optionFetch),
                                    outcome |-> IF p.ok THEN NoOutcome ELSE p.err]]
  /\ frame' = [frame EXCEPT ![FrameOf(i)] = [path |-> p.path, req |-> p.req, res |-> NoResponse]]
  /\ sent' = [sent EXCEPT ![i] = IF p.ok THEN Transmit(<<>>, p.req) ELSE <<>>]
  /\ UNCHANGED <<registry, config, client, names, resp, reads, doc, dcall, dsent, dresp>>

\* call(options)
Call(i, o) ==
  /\ Invoke(i, "call", o, "undefined")

\* createPlatformClient(config): the caller passes the config object cfg,
\* whose baseUrl, apiKey and fetch are destructured into constants.
CreatePlatformClient(cfg) ==
  /\ config' = cfg
  /\ client' = [created |-> TRUE, baseUrl |-> cfg.baseUrl, apiKey |-> cfg.apiKey,
                fetch |-> cfg.fetch]
  /\ UNCHANGED <<registry, names, calls, frame, sent, resp, reads, doc, dcall, dsent, dresp>>

\* The caller assigns to the properties of the config object it had passed.
MutateConfig(cfg) ==
  /\ client.created
  /\ cfg # config
  /\ config' = cfg
  /\ UNCHANGED <<registry, client, names, calls, frame, sent, resp, reads, doc, dcall, dsent, dresp>>

\* What the returned call closure reads: the constants destructured at
\* construction, not the config object.
BoundLive(captured, cfg) == cfg

Bound(captured, cfg) == captured

\* client.call(endpointName, payload)
ClientCall(i, endpointName, payload) ==
  LET b == Bound(client, config) IN
  /\ client.created
  /\ Invoke(i, "client.call", Options(b.baseUrl, b.apiKey, endpointName, payload), b.fetch)

\* client.getEndpointNames()
GetEndpointNames ==
  /\ names' = ObjectKeys(registry)
  /\ UNCHANGED <<registry, config, client, calls, frame, sent, resp, reads, doc, dcall, dsent, dresp>>

\* The transport answers invocation i with r: `res = await fetchFn(...)`, and
\* call() runs on to the await of a body accessor.
FetchResolve(i, r) ==
  /\ calls[i].pc = "awaitFetch"
  /\ resp' = [resp EXCEPT ![i] = r]
  /\ frame' = [frame EXCEPT ![FrameOf(i)].res = r]
  /\ calls' = [calls EXCEPT ![i].pc = Continuation(r)]
  /\ reads' = [reads EXCEPT ![i] = ReadBody(@, Continuation(r))]
  /\ UNCHANGED <<registry, config, client, names, sent, doc, dcall, dsent, dresp>>

\* The transport fails (network error): the rejection propagates unchanged.
FetchReject(i) ==
  /\ calls[i].pc = "awaitFetch"
  /\ calls' = [calls EXCEPT ![i].pc = "done", ![i].outcome = Throw("TransportError")]
  /\ UNCHANGED <<registry, config, client, names, frame, sent, resp, reads, doc, dcall, dsent, dresp>>

\* The awaited body accessor of invocation i settles with the body of the
\* response it was called on, and call() delivers.
BodySettle(i) ==
  /\ calls[i].pc \in {"errorText", "json", "text"}
  /\ calls' = [calls EXCEPT ![i].pc = "done",
                            ![i].outcome = Deliver(calls[i].pc, frame[FrameOf(i)].res,
                                                   resp[i].body)]
  /\ UNCHANGED <<registry, config, client, names, frame, sent, resp, reads, doc, dcall, dsent, dresp>>

\* The caller has the settled promise of invocation i; the invocation is over.
Settled(i) ==
  /\ calls[i].pc = "done"
  /\ calls' = [calls EXCEPT ![i] = Idle]
  /\ frame' = [frame EXCEPT ![FrameOf(i)] = NoFrame]
  /\ sent' = [sent EXCEPT ![i] = <<>>]
  /\ resp' = [resp EXCEPT ![i] = NoResponse]
  /\ reads' = [reads EXCEPT ![i] = <<>>]
  /\ UNCHANGED <<registry, config, client, names, doc, dcall, dsent, dresp>>

\* One caller: invocations of call() and client.call() follow one another.
Next ==
  \/ \E o \in AllOptions : Call(1, o)
  \/ \E e \in EndpointNames, p \in CommonPayloads : ClientCall(1, e, p)
  \/ \E cfg \in ClientConfigs : CreatePlatformClient(cfg)
  \/ GetEndpointNames
  \/ \E r \in Responses : FetchResolve(1, r)
  \/ FetchReject(1)
  \/ BodySettle(1)
  \/ Settled(1)

Spec == Init /\ [][Next]_vars

(***************************************************************************)
(* Concurrent callers: NumCalls invocations of client.call() on one bound  *)
(* client, their steps interleaved at the awaits.                          *)
(***************************************************************************)
BoundConfig ==
  [baseUrl |-> Url(GatewayUrl \o <<"/">>), apiKey |-> "dnx_a", fetch |-> "customFetch"]

ConcEndpoints == {V5Search, V5Profile}

ConcPayloads == {Payload(Str(Digits(NpiLength)), John), Payload(Undef, John)}

ConcResponses ==
  { Response(200, "OK", ContentType(<<"application/json">>), "{}"),
    Response(500, "", ContentType(<<"application/json">>), "{\"detail\":\"boom\"}"),
    Response(404, "Not Found", ContentType(<<"text/plain">>), "") }

InitConc ==
  /\ registry = ENDPOINT_REGISTRY
  /\ config = BoundConfig
  /\ client = [created |-> TRUE, baseUrl |-> BoundConfig.baseUrl,
               apiKey |-> BoundConfig.apiKey, fetch |-> BoundConfig.fetch]
  /\ names = <<>>
  /\ calls = [i \in CallIds |-> Idle]
  /\ frame = [i \in CallIds |-> NoFrame]
  /\ sent = [i \in CallIds |-> <<>>]
  /\ resp = [i \in CallIds |-> NoResponse]
  /\ reads = [i \in CallIds |-> <<>>]
  /\ doc = DocnexusClient([apiKey |-> NoString, version |-> NoString])
  /\ dcall = DocIdle
  /\ dsent = <<>>
  /\ dresp = NoResponse

NextConc ==
  \E i \in CallIds :
    \/ \E e \in ConcEndpoints, p \in ConcPayloads : ClientCall(i, e, p)
    \/ \E r \in ConcResponses : FetchResolve(i, r)
    \/ FetchReject(i)
    \/ BodySettle(i)
    \/ Settled(i)

SpecConc == InitConc /\ [][NextConc]_vars

(***************************************************************************)
(* One bound client whose config object the caller goes on modifying.      *)
(***************************************************************************)
BoundConfigs ==
  ClientConfigs \cup
    {[baseUrl |-> Url(GatewayUrl \o <<"/">>), apiKey |-> "dnx_b", fetch |-> "undefined"]}

BoundEndpoints == {V5Health, V5Search, <<"invalid", "/", "path">>}

BoundPayloads == {NoPayload, Payload(Undef, John)}

NextBound ==
  \/ \E cfg \in BoundConfigs : CreatePlatformClient(cfg)
  \/ \E cfg \in BoundConfigs : MutateConfig(cfg)
  \/ \E e \in BoundEndpoints, p \in BoundPayloads : ClientCall(1, e, p)
  \/ \E r \in ConcResponses : FetchResolve(1, r)
  \/ FetchReject(1)
  \/ BodySettle(1)
  \/ Settled(1)

SpecBound == Init /\ [][NextBound]_vars

(***************************************************************************)
(* The methods of one DocnexusClient, one invocation after another; the    *)
(* setters may run while an invocation awaits.                             *)
(***************************************************************************)
platformVars == <<registry, config, client, names, calls, frame, sent, resp, reads>>

InitDoc ==
  /\ registry = ENDPOINT_REGISTRY
  /\ config = NoConfig
  /\ client = NoClient
  /\ names = <<>>
  /\ calls = [i \in CallIds |-> Idle]
  /\ frame = [i \in CallIds |-> NoFrame]
  /\ sent = [i \in CallIds |-> <<>>]
  /\ resp = [i \in CallIds |-> NoResponse]
  /\ reads = [i \in CallIds |-> <<>>]
  /\ doc \in {DocnexusClient(cfg) : cfg \in DocConfigs}
  /\ dcall = DocIdle
  /\ dsent = <<>>
  /\ dresp = NoResponse

\* setApiKey(key)
SetApiKey(key) ==
  /\ doc' = [doc EXCEPT !.apiKey = Given(key)]
  /\ UNCHANGED <<platformVars, dcall, dsent, dresp>>

\* setBearerToken(token)
SetBearerToken(token) ==
  /\ doc' = [doc EXCEPT !.bearerToken = Given(token)]
  /\ UNCHANGED <<platformVars, dcall, dsent, dresp>>

\* request(method, path, options), run up to the await of the transport.
DocRequest(op, npi, token, method, path, options) ==
  /\ dcall' = [DocIdle EXCEPT !.pc = "awaitFetch", !.op = op, !.npi = npi, !.token = token]
  /\ dsent' = Transmit(<<>>, RequestOf(doc, method, path, options))
  /\ UNCHANGED <<platformVars, doc, dresp>>

\* A method that throws before it reaches request().
DocThrow(op, npi, token, err) ==
  /\ dcall' = [DocIdle EXCEPT !.pc = "done", !.op = op, !.npi = npi, !.token = token,
                              !.outcome = err]
  /\ UNCHANGED <<platformVars, doc, dsent, dresp>>

\* search(params)
Search(params) ==
  /\ dcall.pc = "idle"
  /\ DocRequest("search", Undef, NoString, "POST", VersionPath(doc.version, <<"search">>),
                RequestOptions(NoHeaders, SearchBody(params)))

\* getProfileByNpi(npiNumber)
GetProfileByNpi(npiNumber) ==
  LET npi == StripNonDigits(String(npiNumber)) IN
  /\ dcall.pc = "idle"
  /\ IF Len(npi) # NpiLength
     THEN DocThrow("getProfileByNpi", npiNumber, NoString, InvalidNpi)
     ELSE DocRequest("getProfileByNpi", npiNumber, NoString, "GET",
                     VersionPath(doc.version, <<"profile", "/", "us", "/">> \o npi),
                     NoOptions)

\* health()
Health ==
  /\ dcall.pc = "idle"
  /\ DocRequest("health", Undef, NoString, "GET", VersionPath(doc.version, <<"health">>),
                NoOptions)

\* login(username, password), run up to the await of the transport.
Login ==
  /\ dcall.pc = "idle"
  /\ dcall' = [DocIdle EXCEPT !.pc = "awaitFetch", !.op = "login"]
  /\ dsent' = Transmit(<<>>, LoginRequest(doc))
  /\ UNCHANGED <<platformVars, doc, dresp>>

\* refresh(refreshToken)
Refresh(refreshToken) ==
  LET token == RefreshToken(doc, refreshToken) IN
  /\ dcall.pc = "idle"
  /\ IF ~Truthy(token)
     THEN DocThrow("refresh", Undef, refreshToken, NoRefreshToken)
     ELSE DocRequest("refresh", Undef, refreshToken, "POST",
                     VersionPath(doc.version, <<"refresh">>),
                     RequestOptions(SetHeader(NoHeaders, "Authorization", Bearer(token.v)),
                                    NoPayload))

\* Where a method continues once the transport has answered: login() awaits
\* res.json() on success whatever the content type.
DocContinuation(op, res) ==
  IF op = "login" /\ Ok(res) THEN "json" ELSE Continuation(res)

\* The transport answers the awaiting method.
DocFetchResolve(r) ==
  /\ dcall.pc = "awaitFetch"
  /\ dresp' = r
  /\ dcall' = [dcall EXCEPT !.pc = DocContinuation(dcall.op, r)]
  /\ UNCHANGED <<platformVars, doc, dsent>>

\* The transport rejects: the method rejects with the same error.
DocFetchReject ==
  /\ dcall.pc = "awaitFetch"
  /\ dcall' = [dcall EXCEPT !.pc = "done", !.outcome = Throw("TransportError")]
  /\ UNCHANGED <<platformVars, doc, dsent, dresp>>

\* The awaited body accessor settles.
DocBodySettle ==
  /\ dcall.pc \in {"errorText", "json", "text"}
  /\ IF dcall.op = "login"
     THEN LET l == LoginDeliver(doc, dcall.pc, dresp, dresp.body) IN
          /\ dcall' = [dcall EXCEPT !.pc = "done", !.outcome = l.outcome]
          /\ doc' = l.doc
     ELSE /\ dcall' = [dcall EXCEPT !.pc = "done",
                                    !.outcome = DocDeliver(dcall.pc, dresp, dresp.body)]
          /\ doc' = doc
  /\ UNCHANGED <<platformVars, dsent, dresp>>

\* The caller has its result; the next method may be invoked.
DocSettled ==
  /\ dcall.pc = "done"
  /\ dcall' = DocIdle
  /\ dsent' = <<>>
  /\ dresp' = NoResponse
  /\ UNCHANGED <<platformVars, doc>>

NextDoc ==
  \/ \E key \in DocApiKeys : SetApiKey(key)
  \/ \E token \in BearerTokens : SetBearerToken(token)
  \/ \E params \in DocSearches : Search(params)
  \/ \E n \in DocNpis : GetProfileByNpi(n)
  \/ Health
  \/ Login
  \/ \E t \in RefreshTokens : Refresh(t)
  \/ \E r \in DocResponses : DocFetchResolve(r)
  \/ DocFetchReject
  \/ DocBodySettle
  \/ DocSettled

SpecDoc == InitDoc /\ [][NextDoc]_vars

(***************************************************************************)
(* Properties.  What a property expects is written out here on its own,   *)
(* from the registry table and the documented behaviour, and compared      *)
(* with what the operators above compute.                                  *)
(***************************************************************************)
Started(i) == calls[i].pc # "idle"

Done(i) == calls[i].pc = "done"

Answered(i) == resp[i] # NoResponse

\* A success status.
Success(res) == res.status \in 200..299

\* The digit characters of s, in order.
RECURSIVE DigitsOnly(_)
DigitsOnly(s) ==
  IF s = <<>> THEN <<>>
  ELSE IF Head(s) \in {"0", "1", "2", "3", "4", "5", "6", "7", "8", "9"}
  THEN <<Head(s)>> \o DigitsOnly(Tail(s))
  ELSE DigitsOnly(Tail(s))

\* The method column of the registry table.
TableMethod(name) == IF name \in {V5Profile, V5Health} THEN "GET" ELSE "POST"

\* The path parameter column of the registry table.
TableParams(name) == IF name = V5Profile THEN <<"npi">> ELSE <<>>

NpiOf(o) == o.payload.f["npi"]

NpiMissing(o) == ~o.payload.given \/ NpiOf(o).t \in {"undef", "null"}

\* The endpoint is registered and its path parameters are there and valid.
Resolvable(o) ==
  /\ o.endpointName \in RegisteredNames
  /\ o.endpointName = V5Profile =>
       ~NpiMissing(o) /\ Len(DigitsOnly(String(NpiOf(o)))) = 10

\* C1: a call with an endpoint name that is not one of the seven registered
\* names fails with the 'Unknown endpoint' error, whose message lists every
\* registered name, whatever the other options are.
C1_UnknownEndpointFails ==
  \A i \in CallIds :
    (Done(i) /\ calls[i].opts.endpointName \notin RegisteredNames) =>
      /\ calls[i].outcome.t = "throw"
      /\ calls[i].outcome.err = "Unknown endpoint"
      /\ \A n \in RegisteredNames :
           \E k \in 1..Len(calls[i].outcome.known) : calls[i].outcome.known[k] = n

\* C2: a call to v5/profile/us/:npi (with a base URL) in which npi is absent
\* or null, or that has no payload at all, fails with the 'Missing path
\* parameter' error naming npi.
C2_MissingNpiFails ==
  \A i \in CallIds :
    (Done(i) /\ calls[i].opts.baseUrl.given /\ calls[i].opts.endpointName = V5Profile
       /\ NpiMissing(calls[i].opts)) =>
      /\ calls[i].outcome.t = "throw"
      /\ calls[i].outcome.err = "Missing path parameter"
      /\ calls[i].outcome.param = "npi"

\* C3: for a non-null npi passed to v5/profile/us/:npi, with d the digits of
\* its string form: if d has exactly 10 characters the resolved path is
\* v5/profile/us/ followed by d and no error is raised before the transport;
\* otherwise the call fails with 'NPI must be 10 digits' and sends nothing.
C3_NpiCanonicalised ==
  \A i \in CallIds :
    LET o == calls[i].opts
        d == DigitsOnly(String(NpiOf(o)))
    IN
    (Started(i) /\ o.baseUrl.given /\ o.endpointName = V5Profile /\ ~NpiMissing(o)) =>
      IF Len(d) = 10
      THEN /\ Len(sent[i]) = 1
           /\ frame[i].path = <<"v5", "/", "profile", "/", "us", "/">> \o d
           /\ calls[i].outcome.err \notin {"NPI must be 10 digits", "Missing path parameter",
                                           "Unresolved path placeholder", "TypeError"}
      ELSE /\ Done(i)
           /\ calls[i].outcome = InvalidNpi
           /\ sent[i] = <<>>

\* The formatted NPI "(123) 456-7890" was resolved and its request is out.
C3_Witness ==
  \E i \in CallIds :
    /\ calls[i].pc = "awaitFetch"
    /\ calls[i].opts.endpointName = V5Profile
    /\ NpiOf(calls[i].opts) =
         Str(<<"(", "1", "2", "3", ")", " ", "4", "5", "6", "-", "7", "8", "9", "0">>)

\* C4: an invocation whose endpoint lookup and path resolution succeed hands
\* exactly one request to the transport, whatever the answer (non-success
\* status, transport failure); one that fails before the transport hands it
\* none; no invocation hands it more than one.
C4_OneRequestPerCall ==
  \A i \in CallIds :
    /\ Len(sent[i]) <= 1
    /\ Started(i) =>
         Len(sent[i]) = (IF calls[i].opts.baseUrl.given /\ Resolvable(calls[i].opts)
                         THEN 1 ELSE 0)
    /\ (Done(i) /\ ~Answered(i) /\ calls[i].outcome.err # "TransportError") => sent[i] = <<>>

\* An invocation ended with an HTTP 500 error and one request sent.
C4_Witness ==
  \E i \in CallIds :
    /\ Done(i)
    /\ calls[i].outcome.err = "DocNexus API"
    /\ calls[i].outcome.status = 500
    /\ Len(sent[i]) = 1

\* C5: every request handed to the transport has the method the registry
\* table gives for the endpoint name and an apikey header equal to the
\* supplied API key; it has a body and a Content-Type: application/json
\* header exactly when the method is POST and a payload was supplied, the
\* body being the serialised payload; a GET request has neither.
C5_RequestShape ==
  \A i \in CallIds : \A k \in 1..Len(sent[i]) :
    LET req == sent[i][k]
        o == calls[i].opts
        withBody == TableMethod(o.endpointName) = "POST" /\ o.payload.given
    IN
    /\ req.method = TableMethod(o.endpointName)
    /\ "apikey" \in DOMAIN req.headers
    /\ req.headers["apikey"] = o.apiKey
    /\ ("Content-Type" \in DOMAIN req.headers) <=> withBody
    /\ withBody => req.headers["Content-Type"] = "application/json"
    /\ req.body.given <=> withBody
    /\ withBody => req.body.json = JSONstringify(o.payload)
    /\ req.method = "GET" => (~req.body.given /\ DOMAIN req.headers = {"apikey"})

\* A GET request was sent for a call that supplied a payload.
C5_Witness ==
  \E i \in CallIds :
    /\ Len(sent[i]) = 1
    /\ sent[i][1].method = "GET"
    /\ calls[i].opts.payload.given
    /\ calls[i].opts.endpointName = V5Health

\* The content-type headers of the model that contain application/json.
DeclaresJson(res) ==
  res.contentType \in {ContentType(<<"application/json">>),
                       ContentType(<<"application/json", "; charset=utf-8">>)}

\* C6: on a success response the declared content-type alone decides what is
\* returned: the parsed JSON body when it contains application/json, the raw
\* text unchanged otherwise; the body's content does not influence the choice.
C6_ContentTypeDecides ==
  \A i \in CallIds :
    (Done(i) /\ Answered(i) /\ Success(resp[i])) =>
      /\ reads[i] = <<IF DeclaresJson(resp[i]) THEN "json" ELSE "text">>
      /\ ~DeclaresJson(resp[i]) => calls[i].outcome = Return("text", resp[i].body)
      /\ (DeclaresJson(resp[i]) /\ calls[i].outcome.t = "return") =>
           calls[i].outcome = Return("json", resp[i].body)

\* A success response declared text/plain whose body is JSON text was
\* returned as text.
C6_Witness ==
  \E i \in CallIds :
    /\ Done(i)
    /\ resp[i].status = 200
    /\ resp[i].contentType = ContentType(<<"text/plain">>)
    /\ resp[i].body = "{\"detail\":\"boom\"}"
    /\ calls[i].outcome.t = "return"

\* The detail message the precedence gives for each body text: detail, else
\* error, else the raw text; the raw text, or the status line when the text
\* is empty, for a body that is not JSON or is the JSON null.
TableDetail(text, statusText) ==
  CASE text = "" -> statusText
    [] text = "{\"detail\":\"boom\"}" -> "boom"
    [] text = "{\"error\":\"bad\"}" -> "bad"
    [] text = "{\"detail\":\"boom\",\"error\":\"bad\"}" -> "boom"
    [] text = "{\"detail\":null,\"error\":\"bad\"}" -> "bad"
    [] text = "{\"detail\":\"\",\"error\":\"bad\"}" -> ""
    [] OTHER -> text

\* C7: a non-success response makes call() fail with an error carrying the
\* response's status and the detail message chosen by the precedence detail,
\* error, raw text (status line when the text is empty); no value is returned.
C7_HttpErrorDetail ==
  \A i \in CallIds :
    (Done(i) /\ Answered(i) /\ ~Success(resp[i])) =>
      /\ calls[i].outcome.t = "throw"
      /\ calls[i].outcome.err = "DocNexus API"
      /\ calls[i].outcome.status = resp[i].status
      /\ calls[i].outcome.detail = TableDetail(resp[i].body, resp[i].statusText)

\* Status 500 with body {"detail":"boom","error":"bad"} gave an error
\* with 500 and boom.
C7_Witness ==
  \E i \in CallIds :
    /\ Done(i)
    /\ resp[i].status = 500
    /\ resp[i].body = "{\"detail\":\"boom\",\"error\":\"bad\"}"
    /\ calls[i].outcome.status = 500
    /\ calls[i].outcome.detail = "boom"

\* What invocation i sends and delivers when it runs alone: the request of
\* its own options, and the outcome of its own options and of the answer
\* the transport gave to it.
AloneSent(o) ==
  LET p == Preflight(ENDPOINT_REGISTRY, o) IN IF p.ok THEN <<p.req>> ELSE <<>>

AloneOutcome(o, answered, r) ==
  LET p == Preflight(ENDPOINT_REGISTRY, o) IN
  IF ~p.ok THEN p.err
  ELSE IF ~answered THEN Throw("TransportError")
  ELSE Deliver(Continuation(r), r, r.body)

\* C8: for calls issued concurrently through one client, under every
\* interleaving of their steps around the awaits, the request each call
\* sends and the result or error it delivers are those of that call run
\* alone, and the request and response a call holds are its own.
C8_NoInterference ==
  \A i \in CallIds :
    /\ Started(i) => sent[i] = AloneSent(calls[i].opts)
    /\ Done(i) => calls[i].outcome = AloneOutcome(calls[i].opts, Answered(i), resp[i])
    /\ (Started(i) /\ sent[i] # <<>>) => frame[i].req = sent[i][1]
    /\ Answered(i) => frame[i].res = resp[i]

\* Two calls with different payloads were in flight together: one has
\* delivered its own answer while the other, answered differently, still
\* awaits its error text.
C8_Witness ==
  \E i, j \in CallIds :
    /\ i # j
    /\ Done(i) /\ Answered(i)
    /\ calls[j].pc = "errorText"
    /\ calls[i].opts.payload # calls[j].opts.payload
    /\ resp[i] # resp[j]
    /\ resp[i].status # 200

\* C9: in every reachable state the registry holds exactly the seven entries
\* of the registry table, each with its method, path template and path
\* parameters, and getEndpointNames() has returned exactly the seven names.
C9_RegistryFixed ==
  /\ Len(registry) = 7
  /\ {registry[k].name : k \in 1..Len(registry)} = RegisteredNames
  /\ \A k \in 1..Len(registry) :
       /\ registry[k].def.method = TableMethod(registry[k].name)
       /\ registry[k].def.pathTemplate = registry[k].name
       /\ registry[k].def.pathParams = TableParams(registry[k].name)
  /\ names # <<>> =>
       /\ Len(names) = 7
       /\ {names[k] : k \in 1..Len(names)} = RegisteredNames

\* getEndpointNames() has returned while a call that had failed and was
\* made through the client was over.
C9_Witness ==
  /\ names # <<>>
  /\ \E i \in CallIds :
       /\ Done(i)
       /\ calls[i].via = "client.call"
       /\ calls[i].outcome.t = "throw"

\* C10: a call that passes no base URL is sent to the package-configured
\* base URL of its endpoint group: DOCNEXUS_LINK_BASE_URL for v5/ names,
\* ADVANCED_SEARCH_BASE_URL for api/ names.
C10_PackageBaseUrl ==
  \A i \in CallIds :
    LET o == calls[i].opts IN
    (Started(i) /\ ~o.baseUrl.given /\ o.endpointName \in RegisteredNames \ {V5Profile}) =>
      /\ Len(sent[i]) = 1
      /\ sent[i][1].url = GetBaseUrlForEndpoint(o.endpointName) \o <<"/">> \o o.endpointName

\* C13: the body of every response the transport returns to call() is
\* consumed exactly once: on a non-success status by text() alone, on success
\* by exactly one of json() and text(); nothing is read before an answer.
C13_BodyReadOnce ==
  \A i \in CallIds :
    /\ ~Answered(i) => reads[i] = <<>>
    /\ Answered(i) =>
         /\ Len(reads[i]) = 1
         /\ ~Success(resp[i]) => reads[i] = <<"text">>
         /\ Success(resp[i]) => reads[i][1] \in {"json", "text"}

\* A success response declared as JSON was delivered after one json() read.
C13_Witness ==
  \E i \in CallIds :
    /\ Done(i)
    /\ Success(resp[i])
    /\ reads[i] = <<"json">>
    /\ calls[i].outcome.t = "return"

\* The number of slashes s ends with.
RECURSIVE TrailingSlashes(_)
TrailingSlashes(s) ==
  IF s = <<>> \/ s[Len(s)] # "/" THEN 0
  ELSE 1 + TrailingSlashes(SubSeq(s, 1, Len(s) - 1))

\* s without the slashes it ends with.
Bare(s) == SubSeq(s, 1, Len(s) - TrailingSlashes(s))

\* C14 as stated: the target URL is the base URL without its trailing
\* slashes, one slash, and the resolved path, however many slashes the base
\* URL was given with.
C14_AnyTrailingSlashes ==
  \A i \in CallIds :
    (Started(i) /\ sent[i] # <<>>) =>
      sent[i][1].url = Bare(calls[i].opts.baseUrl.s) \o <<"/">> \o frame[i].path

\* C14 as amended: exactly one trailing slash of the base URL is stripped
\* before the slash and the resolved path are appended; a base URL given
\* with none or with one trailing slash yields the same URL, whose joint is a
\* single slash, and one given with n >= 2 keeps n - 1 of them before it.
C14_OneTrailingSlashStripped ==
  \A i \in CallIds :
    LET base == calls[i].opts.baseUrl.s
        n == TrailingSlashes(base)
        kept == IF n = 0 THEN 0 ELSE n - 1
    IN
    (Started(i) /\ sent[i] # <<>>) =>
      /\ sent[i][1].url = Bare(base) \o [k \in 1..kept |-> "/"] \o <<"/">> \o frame[i].path
      /\ n <= 1 => sent[i][1].url = Bare(base) \o <<"/">> \o frame[i].path

\* A request went out for a base URL given with one trailing slash.
C14_Witness ==
  \E i \in CallIds :
    /\ sent[i] # <<>>
    /\ TrailingSlashes(calls[i].opts.baseUrl.s) = 1
    /\ sent[i][1].url = <<"https:", "//", "gw.example", "/", "v5", "/", "health">>

\* C11: createPlatformClient hands nothing to the transport and starts no
\* call; the client's binding changes only when a client is created, and is
\* then what the config object holds at that moment; every client.call()
\* that starts uses the bound baseUrl, apiKey and transport, whatever the
\* config object holds by then and whatever calls were made in between.
C11_BoundAtConstruction ==
  [][ /\ client' # client =>
           /\ sent' = sent /\ calls' = calls /\ resp' = resp /\ reads' = reads
           /\ client' = [created |-> TRUE, baseUrl |-> config'.baseUrl,
                         apiKey |-> config'.apiKey, fetch |-> config'.fetch]
      /\ \A i \in CallIds :
           (calls[i].pc = "idle" /\ calls'[i].pc # "idle" /\ calls'[i].via = "client.call") =>
             /\ calls'[i].opts.baseUrl = client.baseUrl
             /\ calls'[i].opts.apiKey = client.apiKey
             /\ calls'[i].fetchFn = (IF client.fetch = "undefined" THEN "globalThis.fetch"
                                     ELSE client.fetch)
    ]_vars

\* A client.call() is on its way through the bound custom transport with the
\* bound key and base URL while the config object holds other values.
C11_Witness ==
  \E i \in CallIds :
    /\ calls[i].pc = "awaitFetch"
    /\ calls[i].via = "client.call"
    /\ calls[i].fetchFn = "customFetch"
    /\ calls[i].opts.apiKey = "dnx_a"
    /\ client.fetch = "customFetch"
    /\ config.fetch = "undefined"
    /\ config.apiKey = "dnx_b"
    /\ ~config.baseUrl.given

\* The request a method of the class has handed to the transport.
DocSent == dsent[Len(dsent)]

DataMethods == {"search", "getProfileByNpi", "health"}

\* C12: whenever search / getProfileByNpi / health hands its request to the
\* transport, the request carries Authorization: Bearer <stored token> and
\* no apikey header if a bearer token is stored, and apikey: <stored key>
\* and no Authorization header if none is stored but an API key is; the
\* stored token is the one setBearerToken was last given or the access_token
\* a successful login returned; a login that fails leaves the stored token
\* and API key as they were, and no login changes the API key.
C12_BearerPrecedence ==
  [][ /\ (dcall.pc = "idle" /\ dcall'.pc = "awaitFetch" /\ dcall'.op \in DataMethods) =>
           LET h == dsent'[Len(dsent')].headers IN
           /\ Truthy(doc.bearerToken) =>
                /\ "Authorization" \in DOMAIN h
                /\ h["Authorization"] = Bearer(doc.bearerToken.v)
                /\ "apikey" \notin DOMAIN h
           /\ (~Truthy(doc.bearerToken) /\ Truthy(doc.apiKey)) =>
                /\ "apikey" \in DOMAIN h
                /\ h["apikey"] = doc.apiKey.v
                /\ "Authorization" \notin DOMAIN h
      /\ (dcall.op = "login" /\ dcall.pc # "done" /\ dcall'.pc = "done") =>
           /\ doc'.apiKey = doc.apiKey
           /\ dcall'.outcome.t = "throw" => doc' = doc
           /\ dcall'.outcome.t = "return" => doc'.bearerToken = AccessToken(dresp.body)
      /\ doc'.bearerToken # doc.bearerToken =>
           \/ dcall.op = "login" /\ dcall'.pc = "done" /\ dcall'.outcome.t = "return"
           \/ dcall' = dcall
    ]_vars

\* After a successful login returned jwt_b to a client that holds the API
\* key dnx_a, a search is on its way with the bearer token and no apikey.
C12_Witness ==
  /\ doc.apiKey = Given("dnx_a")
  /\ doc.bearerToken = Given("jwt_b")
  /\ dcall.op = "search"
  /\ dcall.pc = "awaitFetch"
  /\ DOMAIN DocSent.headers = {"Authorization", "Content-Type"}
  /\ DocSent.headers["Authorization"] = "Bearer jwt_b"

\* The endpoint name and payload that call() is given for the same
\* operation as a method of the class: the payload of v5/search is the body
\* the method sends.
CallEndpoint(op) ==
  CASE op = "health" -> V5Health
    [] op = "getProfileByNpi" -> V5Profile
    [] OTHER -> V5Search

CallPayload(op, npi, req) ==
  CASE op = "health" -> NoPayload
    [] op = "getProfileByNpi" -> Payload(npi, Undef)
    [] OTHER -> [given |-> TRUE, f |-> req.body.json]

\* call() with the base URL and API key of the client d.
CallFor(d, op, npi, req) ==
  Preflight(ENDPOINT_REGISTRY,
            Options(Url(d.baseUrl), d.apiKey.v, CallEndpoint(op), CallPayload(op, npi, req)))

\* A client with an API key, no bearer token and the default version.
KeyOnly(d) == Truthy(d.apiKey) /\ ~Truthy(d.bearerToken) /\ d.version = DEFAULT_VERSION

\* A data method started by a key-only client sends what call() sends, or
\* throws what call() throws before sending.
SameRequest ==
  (dcall.pc = "idle" /\ dcall'.pc # "idle" /\ dcall'.op \in DataMethods /\ KeyOnly(doc)) =>
    IF dcall'.pc = "awaitFetch"
    THEN LET c == CallFor(doc, dcall'.op, dcall'.npi, dsent'[1]) IN
         c.ok /\ dsent' = <<c.req>>
    ELSE LET c == CallFor(doc, dcall'.op, dcall'.npi, NoRequest) IN
         ~c.ok /\ c.err = dcall'.outcome /\ dsent' = <<>>

\* The request in flight was sent by a client with an API key, no bearer
\* token and the default version.
SentKeyOnly ==
  /\ dsent # <<>>
  /\ "apikey" \in DOMAIN dsent[1].headers
  /\ "Authorization" \notin DOMAIN dsent[1].headers
  /\ dsent[1].url[Len(doc.baseUrl) + 2] = DEFAULT_VERSION

\* A data method awaits the body accessor call() awaits.
SameContinuation ==
  (dcall.pc = "awaitFetch" /\ dcall.op \in DataMethods /\ SentKeyOnly
     /\ dcall'.pc \notin {"awaitFetch", "done"}) =>
    dcall'.pc = Continuation(dresp')

\* A data method delivers what call() delivers on the same response.
SameOutcome ==
  (dcall.pc \in {"errorText", "json", "text"} /\ dcall.op \in DataMethods /\ SentKeyOnly
     /\ dcall'.pc = "done") =>
    dcall'.outcome = Deliver(dcall.pc, dresp, dresp.body)

\* C15: for a client with an API key, no bearer token and the default
\* version, health(), getProfileByNpi(n) and search(p) send the request that
\* call() sends for v5/health, v5/profile/us/:npi and v5/search, and deliver
\* the result or error that call() delivers on the same response, also when
\* the body of a non-success response has an error field and no detail.
C15_PassThrough == [][SameRequest /\ SameContinuation /\ SameOutcome]_vars

\* C15, what the class and call() do share: the request, the errors thrown
\* before sending, and the body accessor awaited.
C15_SameRequestAndContinuation == [][SameRequest /\ SameContinuation]_vars

\* C15, the one difference: the outcomes are the same unless the response is
\* a non-success one whose JSON body has an error field and no detail.
C15_SameOutcomeButErrorField ==
  [][ \/ SameOutcome
      \/ /\ dcall.pc = "errorText"
         /\ JSONparse(dresp.body).ok
         /\ JSONparse(dresp.body).detail.t = "undef"
         /\ JSONparse(dresp.body).error.t = "str"
         /\ dcall'.outcome = HttpError(dresp.status, dresp.body)
         /\ Deliver(dcall.pc, dresp, dresp.body)
              = HttpError(dresp.status, JSONparse(dresp.body).error.s)
    ]_vars

\* refresh(refreshToken) starts in this step.
RefreshStarts == dcall.pc = "idle" /\ dcall'.pc # "idle" /\ dcall'.op = "refresh"

\* The step sends POST /<version>/refresh with Authorization: Bearer token.
SendsRefreshWith(token) ==
  /\ dcall'.pc = "awaitFetch"
  /\ Len(dsent') = 1
  /\ dsent'[1].method = "POST"
  /\ dsent'[1].url = doc.baseUrl \o <<"/", doc.version, "/", "refresh">>
  /\ "Authorization" \in DOMAIN dsent'[1].headers
  /\ dsent'[1].headers["Authorization"] = Bearer(token)

\* The step throws 'No refresh token provided' and sends nothing.
RefusesRefresh ==
  /\ dcall'.pc = "done"
  /\ dcall'.outcome = NoRefreshToken
  /\ dsent' = <<>>

\* C16: refresh(refreshToken) with an explicit token sends POST
\* /<version>/refresh with Authorization: Bearer <refreshToken> in every
\* state of the client, also when another bearer token is stored; refresh()
\* sends the stored bearer token, or throws 'No refresh token provided'
\* without sending when none is stored; no step of a refresh changes the
\* stored bearer token or API key.
C16_RefreshToken ==
  [][ /\ (RefreshStarts /\ Truthy(dcall'.token)) => SendsRefreshWith(dcall'.token.v)
      /\ (RefreshStarts /\ ~dcall'.token.given /\ Truthy(doc.bearerToken)) =>
           SendsRefreshWith(doc.bearerToken.v)
      /\ (RefreshStarts /\ ~dcall'.token.given /\ ~Truthy(doc.bearerToken)) => RefusesRefresh
      /\ ((dcall.op = "refresh" \/ dcall'.op = "refresh") /\ dcall' # dcall) => doc' = doc
    ]_vars

\* C16, what refresh does: the Authorization header carries the stored bearer
\* token whenever one is stored, and the explicit refresh token only when
\* none is stored.
C16_StoredTokenOverrides ==
  [][ /\ (RefreshStarts /\ Truthy(dcall'.token)) =>
           SendsRefreshWith(IF Truthy(doc.bearerToken) THEN doc.bearerToken.v
                            ELSE dcall'.token.v)
      /\ (RefreshStarts /\ ~dcall'.token.given /\ Truthy(doc.bearerToken)) =>
           SendsRefreshWith(doc.bearerToken.v)
      /\ (RefreshStarts /\ ~Truthy(RefreshToken(doc, dcall'.token))) => RefusesRefresh
      /\ ((dcall.op = "refresh" \/ dcall'.op = "refresh") /\ dcall' # dcall) => doc' = doc
    ]_vars

====
